---------------------------- MODULE Spec2Model ----------------------------
(***************************************************************************)
(* Model of src/app.py: a mock OAuth2 server (/authorize, /token) with a   *)
(* token snapshot file that is read back when the process restarts, and    *)
(* the smart-home QUERY and EXECUTE dispatcher with its cooldown-gated     *)
(* trigger (trigger_jenkins).                                              *)
(*                                                                         *)
(* Requests are served by worker threads.  One action is one atomic step   *)
(* of a handler: a dict operation (atomic under the interpreter lock), the *)
(* opening of the snapshot file, the dump into it, the acquisition of      *)
(* execution_lock, the outbound POST.                                      *)
(*                                                                         *)
(* Python's None is the string "None" in client, secret and redirect       *)
(* fields and the number 0 in code and token fields.                       *)
(* secrets.token_urlsafe is a CSPRNG: each draw is a value never drawn     *)
(* before (a counter per token kind).                                      *)
(***************************************************************************)
EXTENDS Integers, FiniteSets, Sequences, TLC

\* ---------------------------------------------------------------- bounds
MaxCodes == 1
MaxAccess == 3
MaxRefresh == 1
MaxTime == 20
MaxCmds == 1
MaxIds == 1

\* ------------------------------------------------------------- constants
None == "None"
NoToken == 0

TokenThreads == {"t1", "t2"}
HomeThreads == {"h1", "h2"}

\* Prevent duplicate triggers: seconds
MIN_INTERVAL == 10

\* time.time() is seconds since the epoch: at least MIN_INTERVAL at startup.
StartTime == MIN_INTERVAL

Devices == {"jenkins_job", "lamp"}
\* params of a command: 'on' true, false, or missing
OnParams == {"true", "false", "missing"}
\* what requests.post can come back with: a status code, or a
\* RequestException (connection failure, timeout)
PostOutcomes == {"200", "500", "RequestException"}
Free == "free"

\* Credential Registry: the single trusted client and its secret.
VALID_CLIENTS == [c \in {"client1"} |-> "secret1"]

ClientIds == {"client1", "evil", None}
Secrets == {"secret1", None}
RedirectUris == {"https://cb", None}
\* The forms POST /authorize is sent: the login page carries a redirect_uri.
LoginClientIds == {"client1", "evil"}
LoginRedirectUris == {"https://cb"}

\* ------------------------------------------------------------ dict helpers
EmptyDict == [k \in {} |-> None]

DictGet(d, k, default) == IF k \in DOMAIN d THEN d[k] ELSE default

DictSet(d, k, v) == [x \in (DOMAIN d) \cup {k} |-> IF x = k THEN v ELSE d[x]]

DictDel(d, k) == [x \in (DOMAIN d) \ {k} |-> d[x]]

VARIABLES
    auth_codes,       \* code -> <<client_id, redirect_uri>>
    access_tokens,    \* access token -> client_id
    refresh_tokens,   \* refresh token -> client_id
    tokens_file,      \* the snapshot file tokens.json
    rng,              \* draws made so far from secrets.token_urlsafe, per kind
    tpc,              \* position of each /token worker
    treq,             \* the form of the request a worker is serving
    tloc,             \* its locals: client_id, access_token, refresh_token
    tresp,            \* the response it is about to return
    issued,           \* history: every code ever issued -> its binding
    presented,        \* history: codes popped by an exchange that passed client validation
    validTried,       \* history: codes already presented with stored client, redirect and secret
    strangerPassed,   \* history: a client_id outside the registry has passed client validation
    device_states,    \* device id -> on
    last_trigger_time,
    execution_lock,   \* the thread inside "with execution_lock", or Free
    now,              \* the wall clock, in seconds
    hpc,              \* position of each /smarthome worker
    hcur,             \* the command it is on: did, onoff
    results,          \* the results it has appended so far
    forwardedAt,      \* history: the clock readings of the calls that went out, in order
    hout,             \* history: what the POST of the worker's current command came back with
    posts,            \* history: the number of requests.post calls made
    qpc,              \* position of the QUERY worker
    qresp,            \* resp_devices of the QUERY it is serving
    aresp,            \* the response of the last GET /authorize
    up,               \* the process is running (False after a startup that raised)
    returned          \* history: refresh tokens returned to a client -> client_id

authVars == <<auth_codes, access_tokens, refresh_tokens, tokens_file, rng,
              tpc, treq, tloc, tresp, issued, presented, validTried,
              strangerPassed, aresp, up, returned>>

homeVars == <<device_states, last_trigger_time, execution_lock, now, hpc, hcur,
              results, forwardedAt, hout, posts, qpc, qresp>>

vars == <<authVars, homeVars>>

\* ------------------------------------------------------------ snapshot file
NoFile == [state |-> "absent", access_tokens |-> EmptyDict, refresh_tokens |-> EmptyDict]

\* open(TOKENS_FILE, "w") truncates the file before anything is written.
OpenForWrite(f) == [state |-> "truncated", access_tokens |-> EmptyDict, refresh_tokens |-> EmptyDict]

\* json.dump of a store: a JSON object whose keys are the tokens; a client_id
\* is written as a JSON string, and None as null.
json_dump(d) ==
    [k \in DOMAIN d |-> IF d[k] = None THEN <<"null">> ELSE <<"string", d[k]>>]

\* json.load of such an object: null is read as None.
json_load(j) ==
    [k \in DOMAIN j |-> IF j[k] = <<"null">> THEN None ELSE j[k][2]]

\* json.dump of both stores, flushed when the with-block closes the file.
DumpTokens(at, rt) ==
    [state |-> "written", access_tokens |-> json_dump(at), refresh_tokens |-> json_dump(rt)]

\* json.load of a file that open(..., "w") has emptied raises.
JSONDecodeError == <<"JSONDecodeError">>

load_tokens_from_file(f) ==
    IF f.state = "absent" THEN <<EmptyDict, EmptyDict>>
    ELSE IF f.state = "written"
    THEN <<json_load(f.access_tokens), json_load(f.refresh_tokens)>>
    ELSE JSONDecodeError

\* ----------------------------------------------------------------- tokens
\* Mutant: a generator that returns the same value on every draw.
token_urlsafe_repeats(drawn) == 1

token_urlsafe(drawn) == drawn + 1

NoReq == [grant_type |-> None, code |-> NoToken, redirect_uri |-> None,
          client_id |-> None, client_secret |-> None, refresh_token |-> NoToken]

NoLoc == [client_id |-> None, access_token |-> NoToken, refresh_token |-> NoToken]

\* No GET /authorize has been answered.
NoPage == [status |-> 0, client_id |-> None]

NoResp == [status |-> 0, error |-> None, access_token |-> NoToken, refresh_token |-> NoToken]

ErrorResp(status, error) ==
    [status |-> status, error |-> error, access_token |-> NoToken, refresh_token |-> NoToken]

\* VALID_CLIENTS.get(client_id) != client_secret
ClientRejected(client_id, client_secret) ==
    DictGet(VALID_CLIENTS, client_id, None) # client_secret

\* Mutant: the redirect_uri stored with the code is not compared.
GrantRejected_ignoresRedirect(stored, client_id, redirect_uri) ==
    \/ stored = <<>>
    \/ stored[1] # client_id

\* not stored or stored[0] != client_id or stored[1] != redirect_uri
GrantRejected(stored, client_id, redirect_uri) ==
    \/ stored = <<>>
    \/ stored[1] # client_id
    \/ stored[2] # redirect_uri

\* Mutant: the code is read with get and stays in the ledger.
PopCode_keeps(codes, code) == codes

\* auth_codes.pop(code, None): the ledger after the pop
PopCode(codes, code) == IF code \in DOMAIN codes THEN DictDel(codes, code) ELSE codes

\* Mutant: the comparison is inverted.
RefreshRejected_inverted(rtokens, refresh_token, client_id) ==
    DictGet(rtokens, refresh_token, None) = client_id

\* refresh_tokens.get(refresh_token) != client_id
RefreshRejected(rtokens, refresh_token, client_id) ==
    DictGet(rtokens, refresh_token, None) # client_id

\* ------------------------------------------------------------- smart home
NoCmd == [did |-> None, onoff |-> FALSE]

\* params.get('on', False)
OnOff(on) == on = "true"

\* Mutant: the cooldown is one second short.
CooldownActive_short(current_time, last) == current_time - last < MIN_INTERVAL - 1

\* Mutant: a call exactly MIN_INTERVAL after the last one is still dropped.
CooldownActive_inclusive(current_time, last) == current_time - last <= MIN_INTERVAL

\* current_time - last_trigger_time < MIN_INTERVAL
CooldownActive(current_time, last) == current_time - last < MIN_INTERVAL

\* Mutant: any response of the endpoint counts as a success.
PostSucceeded_anyStatus(outcome) == outcome # "RequestException"

\* resp.status_code == 200; a RequestException returns False
PostSucceeded(outcome) == outcome = "200"

\* 'status': 'SUCCESS' if success else 'ERROR'
Status(success) == IF success THEN "SUCCESS" ELSE "ERROR"

Init ==
    /\ auth_codes = EmptyDict
    /\ tokens_file = NoFile
    /\ access_tokens = load_tokens_from_file(NoFile)[1]
    /\ refresh_tokens = load_tokens_from_file(NoFile)[2]
    /\ rng = [code |-> 0, access |-> 0, refresh |-> 0]
    /\ tpc = [th \in TokenThreads |-> "idle"]
    /\ treq = [th \in TokenThreads |-> NoReq]
    /\ tloc = [th \in TokenThreads |-> NoLoc]
    /\ tresp = [th \in TokenThreads |-> NoResp]
    /\ issued = EmptyDict
    /\ presented = {}
    /\ validTried = {}
    /\ strangerPassed = FALSE
    /\ device_states = [d \in {"jenkins_job"} |-> FALSE]
    /\ last_trigger_time = 0
    /\ execution_lock = Free
    /\ now = StartTime
    /\ hpc = [th \in HomeThreads |-> "idle"]
    /\ hcur = [th \in HomeThreads |-> NoCmd]
    /\ results = [th \in HomeThreads |-> <<>>]
    /\ forwardedAt = <<>>
    /\ hout = [th \in HomeThreads |-> None]
    /\ posts = 0
    /\ qpc = "idle"
    /\ qresp = EmptyDict
    /\ aresp = NoPage
    /\ up = TRUE
    /\ returned = EmptyDict

\* -------------------------------------------------------- GET /authorize
\* Mutant: every client_id is taken for a registered one.
UnknownClient_accepts(client_id) == FALSE

\* client_id not in VALID_CLIENTS
UnknownClient(client_id) == client_id \notin DOMAIN VALID_CLIENTS

\* request.method == 'GET': "Unknown client_id", 400, or the login page.
AuthorizeGet(client_id) ==
    /\ aresp' = [status |-> IF UnknownClient(client_id) THEN 400 ELSE 200,
                 client_id |-> client_id]
    /\ aresp' # aresp
    /\ UNCHANGED <<auth_codes, access_tokens, refresh_tokens, tokens_file, rng,
                   tpc, treq, tloc, tresp, issued, presented, validTried,
                   strangerPassed, up, returned>>
    /\ UNCHANGED homeVars

\* No check of client_id, username or password; the code is stored before
\* the redirect is built (a missing redirect_uri then raises, after the store).
AuthorizePost(client_id, redirect_uri) ==
    /\ rng.code < MaxCodes
    /\ LET code == token_urlsafe(rng.code) IN
        /\ rng' = [rng EXCEPT !.code = code]
        /\ auth_codes' = DictSet(auth_codes, code, <<client_id, redirect_uri>>)
        /\ issued' = DictSet(issued, code, <<client_id, redirect_uri>>)
    /\ UNCHANGED <<access_tokens, refresh_tokens, tokens_file, tpc, treq, tloc,
                   tresp, presented, validTried, strangerPassed>>
    /\ UNCHANGED <<aresp, up, returned>>
    /\ UNCHANGED homeVars

\* ------------------------------------------------------------ POST /token
\* The form fields a client can send: a code or refresh token issued so far,
\* or none (a value never issued misses the store like a missing field:
\* dict.get and dict.pop return None for both).
CodeInputs == (1..rng.code) \cup {NoToken}
RefreshInputs == (1..rng.refresh) \cup {NoToken}

\* An error response leaves before the next request is rejected: a rejection
\* changes no store after its one atomic step, so the order of two pending
\* error responses is immaterial.
ErrorPending == \E th \in TokenThreads : tpc[th] = "respond" /\ tresp[th].status # 200

\* The secret the Credential Registry holds for this client.
CorrectSecret(client_id, client_secret) ==
    /\ client_id \in DOMAIN VALID_CLIENTS
    /\ VALID_CLIENTS[client_id] = client_secret

\* The request presents an issued code with the client_id and redirect_uri
\* stored with it and the client's correct secret.
ValidExchange(r) ==
    /\ r.grant_type = "authorization_code"
    /\ r.code \in DOMAIN issued
    /\ issued[r.code] = <<r.client_id, r.redirect_uri>>
    /\ CorrectSecret(r.client_id, r.client_secret)

\* Mutant: the code is popped before the client is validated.
TokenCodeStart_popsFirst(th, code, redirect_uri, client_id, client_secret) ==
    LET r == [NoReq EXCEPT !.grant_type = "authorization_code", !.code = code,
                           !.redirect_uri = redirect_uri, !.client_id = client_id,
                           !.client_secret = client_secret]
        stored == DictGet(auth_codes, code, <<>>)
    IN
    /\ tpc[th] = "idle"
    /\ treq' = [treq EXCEPT ![th] = r]
    /\ auth_codes' = PopCode(auth_codes, code)
    /\ IF ClientRejected(client_id, client_secret)
       THEN /\ ~ErrorPending
            /\ tresp' = [tresp EXCEPT ![th] = ErrorResp(401, "invalid_client")]
            /\ tpc' = [tpc EXCEPT ![th] = "respond"]
            /\ UNCHANGED <<rng, tloc, presented, validTried, strangerPassed>>
       ELSE /\ strangerPassed' = (strangerPassed \/ client_id \notin DOMAIN VALID_CLIENTS)
            /\ presented' = presented \cup ({code} \cap DOMAIN issued)
            /\ validTried' = IF ValidExchange(r) THEN validTried \cup {code} ELSE validTried
            /\ IF GrantRejected(stored, client_id, redirect_uri)
               THEN /\ ~ErrorPending
                    /\ tresp' = [tresp EXCEPT ![th] = ErrorResp(400, "invalid_grant")]
                    /\ tpc' = [tpc EXCEPT ![th] = "respond"]
                    /\ UNCHANGED <<rng, tloc>>
               ELSE /\ rng.access < MaxAccess
                    /\ rng.refresh < MaxRefresh
                    /\ rng' = [rng EXCEPT !.access = token_urlsafe(rng.access),
                                          !.refresh = token_urlsafe(rng.refresh)]
                    /\ tloc' = [tloc EXCEPT ![th] =
                                 [client_id |-> client_id,
                                  access_token |-> token_urlsafe(rng.access),
                                  refresh_token |-> token_urlsafe(rng.refresh)]]
                    /\ tpc' = [tpc EXCEPT ![th] = "ins_access"]
                    /\ UNCHANGED tresp
    /\ UNCHANGED <<access_tokens, refresh_tokens, tokens_file, issued>>
    /\ UNCHANGED <<aresp, up, returned>>
    /\ UNCHANGED homeVars

\* grant_type == 'authorization_code', up to the generation of the tokens
TokenCodeStart(th, code, redirect_uri, client_id, client_secret) ==
    LET r == [NoReq EXCEPT !.grant_type = "authorization_code", !.code = code,
                           !.redirect_uri = redirect_uri, !.client_id = client_id,
                           !.client_secret = client_secret]
        stored == DictGet(auth_codes, code, <<>>)
    IN
    /\ tpc[th] = "idle"
    /\ treq' = [treq EXCEPT ![th] = r]
    /\ IF ClientRejected(client_id, client_secret)
       THEN /\ ~ErrorPending
            /\ tresp' = [tresp EXCEPT ![th] = ErrorResp(401, "invalid_client")]
            /\ tpc' = [tpc EXCEPT ![th] = "respond"]
            /\ UNCHANGED <<auth_codes, rng, tloc, presented, validTried, strangerPassed>>
       ELSE /\ auth_codes' = PopCode(auth_codes, code)
            /\ strangerPassed' = (strangerPassed \/ client_id \notin DOMAIN VALID_CLIENTS)
            /\ presented' = presented \cup ({code} \cap DOMAIN issued)
            /\ validTried' = IF ValidExchange(r) THEN validTried \cup {code} ELSE validTried
            /\ IF GrantRejected(stored, client_id, redirect_uri)
               THEN /\ ~ErrorPending
                    /\ tresp' = [tresp EXCEPT ![th] = ErrorResp(400, "invalid_grant")]
                    /\ tpc' = [tpc EXCEPT ![th] = "respond"]
                    /\ UNCHANGED <<rng, tloc>>
               ELSE /\ rng.access < MaxAccess
                    /\ rng.refresh < MaxRefresh
                    /\ rng' = [rng EXCEPT !.access = token_urlsafe(rng.access),
                                          !.refresh = token_urlsafe(rng.refresh)]
                    /\ tloc' = [tloc EXCEPT ![th] =
                                 [client_id |-> client_id,
                                  access_token |-> token_urlsafe(rng.access),
                                  refresh_token |-> token_urlsafe(rng.refresh)]]
                    /\ tpc' = [tpc EXCEPT ![th] = "ins_access"]
                    /\ UNCHANGED tresp
    /\ UNCHANGED <<access_tokens, refresh_tokens, tokens_file, issued>>
    /\ UNCHANGED <<aresp, up, returned>>
    /\ UNCHANGED homeVars

\* grant_type == 'refresh_token', up to the generation of the token
TokenRefreshStart(th, refresh_token, client_id, client_secret) ==
    LET r == [NoReq EXCEPT !.grant_type = "refresh_token", !.refresh_token = refresh_token,
                           !.client_id = client_id, !.client_secret = client_secret]
    IN
    /\ tpc[th] = "idle"
    /\ treq' = [treq EXCEPT ![th] = r]
    /\ strangerPassed' = (strangerPassed \/ (/\ ~ClientRejected(client_id, client_secret)
                                               /\ client_id \notin DOMAIN VALID_CLIENTS))
    /\ IF ClientRejected(client_id, client_secret)
       THEN /\ ~ErrorPending
            /\ tresp' = [tresp EXCEPT ![th] = ErrorResp(401, "invalid_client")]
            /\ tpc' = [tpc EXCEPT ![th] = "respond"]
            /\ UNCHANGED <<rng, tloc>>
       ELSE IF RefreshRejected(refresh_tokens, refresh_token, client_id)
       THEN /\ ~ErrorPending
            /\ tresp' = [tresp EXCEPT ![th] = ErrorResp(400, "invalid_grant")]
            /\ tpc' = [tpc EXCEPT ![th] = "respond"]
            /\ UNCHANGED <<rng, tloc>>
       ELSE /\ rng.access < MaxAccess
            /\ rng' = [rng EXCEPT !.access = token_urlsafe(rng.access)]
            /\ tloc' = [tloc EXCEPT ![th] =
                         [client_id |-> client_id,
                          access_token |-> token_urlsafe(rng.access),
                          refresh_token |-> NoToken]]
            /\ tpc' = [tpc EXCEPT ![th] = "ins_access"]
            /\ UNCHANGED tresp
    /\ UNCHANGED <<auth_codes, access_tokens, refresh_tokens, tokens_file, issued,
                   presented, validTried>>
    /\ UNCHANGED <<aresp, up, returned>>
    /\ UNCHANGED homeVars

\* any other grant_type
TokenUnsupported(th) ==
    /\ tpc[th] = "idle"
    /\ ~ErrorPending
    /\ treq' = [treq EXCEPT ![th] = [NoReq EXCEPT !.grant_type = "password"]]
    /\ tresp' = [tresp EXCEPT ![th] = ErrorResp(400, "unsupported_grant_type")]
    /\ tpc' = [tpc EXCEPT ![th] = "respond"]
    /\ UNCHANGED <<auth_codes, access_tokens, refresh_tokens, tokens_file, rng, tloc,
                   issued, presented, validTried, strangerPassed>>
    /\ UNCHANGED <<aresp, up, returned>>
    /\ UNCHANGED homeVars

\* access_tokens[access_token] = client_id
InsertAccess(th) ==
    /\ tpc[th] = "ins_access"
    /\ access_tokens' = DictSet(access_tokens, tloc[th].access_token, tloc[th].client_id)
    /\ tpc' = [tpc EXCEPT ![th] =
                IF treq[th].grant_type = "authorization_code" THEN "ins_refresh"
                ELSE "save_open"]
    /\ UNCHANGED <<auth_codes, refresh_tokens, tokens_file, rng, treq, tloc, tresp,
                   issued, presented, validTried, strangerPassed>>
    /\ UNCHANGED <<aresp, up, returned>>
    /\ UNCHANGED homeVars

\* refresh_tokens[refresh_token] = client_id
InsertRefresh(th) ==
    /\ tpc[th] = "ins_refresh"
    /\ refresh_tokens' = DictSet(refresh_tokens, tloc[th].refresh_token, tloc[th].client_id)
    /\ tpc' = [tpc EXCEPT ![th] = "save_open"]
    /\ UNCHANGED <<auth_codes, access_tokens, tokens_file, rng, treq, tloc, tresp,
                   issued, presented, validTried, strangerPassed>>
    /\ UNCHANGED <<aresp, up, returned>>
    /\ UNCHANGED homeVars

\* save_tokens_to_file: open(TOKENS_FILE, "w")
SaveOpen(th) ==
    /\ tpc[th] = "save_open"
    /\ tokens_file' = OpenForWrite(tokens_file)
    /\ tpc' = [tpc EXCEPT ![th] = "save_dump"]
    /\ UNCHANGED <<auth_codes, access_tokens, refresh_tokens, rng, treq, tloc, tresp,
                   issued, presented, validTried, strangerPassed>>
    /\ UNCHANGED <<aresp, up, returned>>
    /\ UNCHANGED homeVars

\* save_tokens_to_file: json.dump and the close of the file; then the
\* response is built.
SaveDump(th) ==
    /\ tpc[th] = "save_dump"
    /\ tokens_file' = DumpTokens(access_tokens, refresh_tokens)
    /\ tresp' = [tresp EXCEPT ![th] =
                  [status |-> 200, error |-> None,
                   access_token |-> tloc[th].access_token,
                   refresh_token |-> tloc[th].refresh_token]]
    /\ tpc' = [tpc EXCEPT ![th] = "respond"]
    /\ UNCHANGED <<auth_codes, access_tokens, refresh_tokens, rng, treq, tloc,
                   issued, presented, validTried, strangerPassed>>
    /\ UNCHANGED <<aresp, up, returned>>
    /\ UNCHANGED homeVars

\* return jsonify(...): the response leaves, the worker is free again
TokenRespond(th) ==
    /\ tpc[th] = "respond"
    /\ tpc' = [tpc EXCEPT ![th] = "idle"]
    /\ treq' = [treq EXCEPT ![th] = NoReq]
    /\ tloc' = [tloc EXCEPT ![th] = NoLoc]
    /\ tresp' = [tresp EXCEPT ![th] = NoResp]
    /\ returned' = IF tresp[th].status = 200 /\ tresp[th].refresh_token # NoToken
                   THEN DictSet(returned, tresp[th].refresh_token, tloc[th].client_id)
                   ELSE returned
    /\ UNCHANGED <<auth_codes, access_tokens, refresh_tokens, tokens_file, rng,
                   issued, presented, validTried, strangerPassed>>
    /\ UNCHANGED <<aresp, up>>
    /\ UNCHANGED homeVars

NextAuth ==
    \/ \E c \in LoginClientIds, u \in LoginRedirectUris : AuthorizePost(c, u)
    \/ \E th \in TokenThreads, k \in CodeInputs, u \in RedirectUris,
          c \in ClientIds, s \in Secrets : TokenCodeStart(th, k, u, c, s)
    \/ \E th \in TokenThreads, t \in RefreshInputs,
          c \in ClientIds, s \in Secrets : TokenRefreshStart(th, t, c, s)
    \/ \E th \in TokenThreads : TokenUnsupported(th)
    \/ \E th \in TokenThreads : InsertAccess(th)
    \/ \E th \in TokenThreads : InsertRefresh(th)
    \/ \E th \in TokenThreads : SaveOpen(th)
    \/ \E th \in TokenThreads : SaveDump(th)
    \/ \E th \in TokenThreads : TokenRespond(th)

SpecAuth == Init /\ [][NextAuth]_vars

\* ---------------------------------------------------------------- restart
\* The process stops, wherever its workers are, and the module is loaded
\* again: the token stores are read from the snapshot file (line 29), every
\* other global starts from its literal, the requests in flight are gone.
\* A load_tokens_from_file that raises ends the new process at once.
Restart ==
    /\ LET loaded == load_tokens_from_file(tokens_file) IN
        IF loaded = JSONDecodeError
        THEN /\ up' = FALSE
             /\ access_tokens' = EmptyDict
             /\ refresh_tokens' = EmptyDict
        ELSE /\ up' = TRUE
             /\ access_tokens' = loaded[1]
             /\ refresh_tokens' = loaded[2]
    /\ auth_codes' = EmptyDict
    /\ tpc' = [th \in TokenThreads |-> "idle"]
    /\ treq' = [th \in TokenThreads |-> NoReq]
    /\ tloc' = [th \in TokenThreads |-> NoLoc]
    /\ tresp' = [th \in TokenThreads |-> NoResp]
    /\ aresp' = NoPage
    /\ device_states' = [d \in {"jenkins_job"} |-> FALSE]
    /\ last_trigger_time' = 0
    /\ execution_lock' = Free
    /\ hpc' = [th \in HomeThreads |-> "idle"]
    /\ hcur' = [th \in HomeThreads |-> NoCmd]
    /\ results' = [th \in HomeThreads |-> <<>>]
    /\ qpc' = "idle"
    /\ qresp' = EmptyDict
    /\ UNCHANGED <<tokens_file, rng, issued, presented, validTried, strangerPassed,
                   returned, now, forwardedAt, hout, posts>>

\* /authorize and /token served by a process that is restarted; a process
\* whose startup raised serves nothing.
NextRestart ==
    \/ up /\ NextAuth
    \/ Restart

SpecRestart == Init /\ [][NextRestart]_vars

\* The login flow: the page is fetched and codes are issued while one /token
\* worker serves exchanges.
LoginThreads == {"t1"}

NextLogin ==
    \/ \E c \in ClientIds : AuthorizeGet(c)
    \/ \E c \in LoginClientIds, u \in LoginRedirectUris : AuthorizePost(c, u)
    \/ \E th \in LoginThreads, k \in CodeInputs, u \in RedirectUris,
          c \in ClientIds, s \in Secrets : TokenCodeStart(th, k, u, c, s)
    \/ \E th \in LoginThreads, t \in RefreshInputs,
          c \in ClientIds, s \in Secrets : TokenRefreshStart(th, t, c, s)
    \/ \E th \in LoginThreads : TokenUnsupported(th)
    \/ \E th \in LoginThreads : InsertAccess(th)
    \/ \E th \in LoginThreads : InsertRefresh(th)
    \/ \E th \in LoginThreads : SaveOpen(th)
    \/ \E th \in LoginThreads : SaveDump(th)
    \/ \E th \in LoginThreads : TokenRespond(th)

SpecLogin == Init /\ [][NextLogin]_vars

\* ------------------------------------------------- POST /smarthome: EXECUTE
\* results.append({'ids': [did], 'status': ..., 'states': {'on': onoff, 'online': True}})
AppendResult(res, cmd, success) ==
    Append(res, [ids |-> <<cmd.did>>, status |-> Status(success),
                 on |-> cmd.onoff, online |-> TRUE])

\* One pass of the loop over the commands and their devices, up to the call
\* of trigger_jenkins: device_states[did] = onoff.
ExecuteCommand(th, did, on) ==
    /\ hpc[th] \in {"idle", "loop"}
    /\ Len(results[th]) < MaxCmds
    /\ device_states' = DictSet(device_states, did, OnOff(on))
    /\ hcur' = [hcur EXCEPT ![th] = [did |-> did, onoff |-> OnOff(on)]]
    /\ hpc' = [hpc EXCEPT ![th] = "trigger"]
    /\ hout' = [hout EXCEPT ![th] = None]
    /\ UNCHANGED <<last_trigger_time, execution_lock, now, results, forwardedAt>>
    /\ UNCHANGED <<posts, qpc, qresp>>
    /\ UNCHANGED authVars

\* Mutant: a call inside the cooldown is sent out all the same.
TriggerGate_forwardsDropped(th) ==
    /\ hpc[th] = "trigger"
    /\ execution_lock = Free
    /\ IF CooldownActive(now, last_trigger_time)
       THEN /\ execution_lock' = th
            /\ hpc' = [hpc EXCEPT ![th] = "post"]
            /\ UNCHANGED <<last_trigger_time, results, forwardedAt>>
       ELSE /\ last_trigger_time' = now
            /\ execution_lock' = th
            /\ forwardedAt' = Append(forwardedAt, now)
            /\ hpc' = [hpc EXCEPT ![th] = "post"]
            /\ UNCHANGED results
    /\ UNCHANGED <<device_states, now, hcur, hout>>
    /\ UNCHANGED <<posts, qpc, qresp>>
    /\ UNCHANGED authVars

\* trigger_jenkins: "with execution_lock", the reading of the clock and the
\* cooldown check.  A suppressed call returns False, which leaves the
\* with-block, and its result is appended.  A call that passes sets
\* last_trigger_time and goes on to the POST, still inside the with-block.
TriggerGate(th) ==
    /\ hpc[th] = "trigger"
    /\ execution_lock = Free
    /\ IF CooldownActive(now, last_trigger_time)
       THEN /\ results' = [results EXCEPT ![th] = AppendResult(@, hcur[th], FALSE)]
            /\ hpc' = [hpc EXCEPT ![th] = "loop"]
            /\ UNCHANGED <<last_trigger_time, execution_lock, forwardedAt>>
       ELSE /\ last_trigger_time' = now
            /\ execution_lock' = th
            /\ forwardedAt' = Append(forwardedAt, now)
            /\ hpc' = [hpc EXCEPT ![th] = "post"]
            /\ UNCHANGED results
    /\ UNCHANGED <<device_states, now, hcur, hout>>
    /\ UNCHANGED <<posts, qpc, qresp>>
    /\ UNCHANGED authVars

\* Mutant: the lock is released by hand on the normal path only, so a
\* RequestException leaves it held.
TriggerPost_leaksLock(th, outcome) ==
    /\ hpc[th] = "post"
    /\ execution_lock' = IF outcome = "RequestException" THEN execution_lock ELSE Free
    /\ results' = [results EXCEPT ![th] = AppendResult(@, hcur[th], PostSucceeded(outcome))]
    /\ hpc' = [hpc EXCEPT ![th] = "loop"]
    /\ hout' = [hout EXCEPT ![th] = outcome]
    /\ posts' = posts + 1
    /\ UNCHANGED <<device_states, last_trigger_time, now, hcur, forwardedAt>>
    /\ UNCHANGED <<qpc, qresp>>
    /\ UNCHANGED authVars

\* Mutant: a failed call gives the cooldown back.
TriggerPost_resetsOnFailure(th, outcome) ==
    /\ hpc[th] = "post"
    /\ execution_lock' = Free
    /\ results' = [results EXCEPT ![th] = AppendResult(@, hcur[th], PostSucceeded(outcome))]
    /\ hpc' = [hpc EXCEPT ![th] = "loop"]
    /\ hout' = [hout EXCEPT ![th] = outcome]
    /\ posts' = posts + 1
    /\ last_trigger_time' = IF PostSucceeded(outcome) THEN last_trigger_time ELSE 0
    /\ UNCHANGED <<device_states, now, hcur, forwardedAt>>
    /\ UNCHANGED <<qpc, qresp>>
    /\ UNCHANGED authVars

\* requests.post(..., timeout=5) comes back with a status code or raises a
\* RequestException; the function returns, which leaves the with-block, and
\* the result is appended.
TriggerPost(th, outcome) ==
    /\ hpc[th] = "post"
    /\ execution_lock' = Free
    /\ results' = [results EXCEPT ![th] = AppendResult(@, hcur[th], PostSucceeded(outcome))]
    /\ hpc' = [hpc EXCEPT ![th] = "loop"]
    /\ hout' = [hout EXCEPT ![th] = outcome]
    /\ posts' = posts + 1
    /\ UNCHANGED <<device_states, last_trigger_time, now, hcur, forwardedAt>>
    /\ UNCHANGED <<qpc, qresp>>
    /\ UNCHANGED authVars

\* return jsonify({'requestId': ..., 'payload': {'commands': results}})
ExecuteRespond(th) ==
    /\ hpc[th] = "loop"
    /\ hpc' = [hpc EXCEPT ![th] = "idle"]
    /\ results' = [results EXCEPT ![th] = <<>>]
    /\ hcur' = [hcur EXCEPT ![th] = NoCmd]
    /\ hout' = [hout EXCEPT ![th] = None]
    /\ UNCHANGED <<device_states, last_trigger_time, execution_lock, now, forwardedAt>>
    /\ UNCHANGED <<posts, qpc, qresp>>
    /\ UNCHANGED authVars

\* The wall clock advances.
Tick ==
    /\ now < MaxTime
    /\ now' = now + 1
    /\ UNCHANGED <<device_states, last_trigger_time, execution_lock, hpc, hcur,
                   results, forwardedAt, hout>>
    /\ UNCHANGED <<posts, qpc, qresp>>
    /\ UNCHANGED authVars

NextHome ==
    \/ \E th \in HomeThreads, d \in Devices, on \in OnParams : ExecuteCommand(th, d, on)
    \/ \E th \in HomeThreads : TriggerGate(th)
    \/ \E th \in HomeThreads, o \in PostOutcomes : TriggerPost(th, o)
    \/ \E th \in HomeThreads : ExecuteRespond(th)
    \/ Tick

SpecHome == Init /\ [][NextHome]_vars

\* Fair scheduling of trigger_jenkins.  A thread blocked in "with
\* execution_lock" gets the lock if the lock is free again and again (strong
\* fairness of the acquisition); requests.post comes back or times out after
\* 5 seconds (weak fairness of its return).  Nothing obliges a client to send
\* a request or the clock to advance.
FairHome ==
    /\ \A th \in HomeThreads : SF_vars(TriggerGate(th))
    /\ \A th \in HomeThreads : WF_vars(\E o \in PostOutcomes : TriggerPost(th, o))

\* The device SYNC announces.
SyncDevices == {"jenkins_job"}

\* EXECUTE requests for the announced device: what trigger_jenkins does is
\* the same for every device id.
NextTrigger ==
    \/ \E th \in HomeThreads, d \in SyncDevices, on \in OnParams : ExecuteCommand(th, d, on)
    \/ \E th \in HomeThreads : TriggerGate(th)
    \/ \E th \in HomeThreads, o \in PostOutcomes : TriggerPost(th, o)
    \/ \E th \in HomeThreads : ExecuteRespond(th)
    \/ Tick

SpecTriggerFair == Init /\ [][NextTrigger]_vars /\ FairHome

\* --------------------------------------------------- POST /smarthome: QUERY
\* The device ids a QUERY can name: "fan" is an id no EXECUTE ever sets.
QueryIds == Devices \cup {"fan"}

\* Mutant: the lookup creates the entry it misses (setdefault).
QueryDevice_creates(did) ==
    /\ Cardinality(DOMAIN qresp) < MaxIds
    /\ did \notin DOMAIN qresp
    /\ qresp' = DictSet(qresp, did, [online |-> TRUE, on |-> DictGet(device_states, did, FALSE)])
    /\ qpc' = "loop"
    /\ device_states' = DictSet(device_states, did, DictGet(device_states, did, FALSE))
    /\ UNCHANGED <<last_trigger_time, execution_lock, now, hpc, hcur,
                   results, forwardedAt, hout, posts>>
    /\ UNCHANGED authVars

\* One pass of the loop over the requested devices:
\* resp_devices[did] = {'online': True, 'on': device_states.get(did, False)}
QueryDevice(did) ==
    /\ Cardinality(DOMAIN qresp) < MaxIds
    /\ did \notin DOMAIN qresp
    /\ qresp' = DictSet(qresp, did, [online |-> TRUE, on |-> DictGet(device_states, did, FALSE)])
    /\ qpc' = "loop"
    /\ UNCHANGED <<device_states, last_trigger_time, execution_lock, now, hpc, hcur,
                   results, forwardedAt, hout, posts>>
    /\ UNCHANGED authVars

\* return jsonify({'requestId': ..., 'payload': {'devices': resp_devices}})
QueryRespond ==
    /\ qpc = "loop"
    /\ qpc' = "idle"
    /\ qresp' = EmptyDict
    /\ UNCHANGED <<device_states, last_trigger_time, execution_lock, now, hpc, hcur,
                   results, forwardedAt, hout, posts>>
    /\ UNCHANGED authVars

\* QUERY requests served while EXECUTE requests are.  QUERY never reads the
\* clock: these are the runs that take place within one second.
NextQuery ==
    \/ \E th \in HomeThreads, d \in Devices, on \in OnParams : ExecuteCommand(th, d, on)
    \/ \E th \in HomeThreads : TriggerGate(th)
    \/ \E th \in HomeThreads, o \in PostOutcomes : TriggerPost(th, o)
    \/ \E th \in HomeThreads : ExecuteRespond(th)
    \/ \E d \in QueryIds : QueryDevice(d)
    \/ QueryRespond

SpecQuery == Init /\ [][NextQuery]_vars

Next == NextAuth \/ NextLogin \/ NextRestart \/ NextHome \/ NextTrigger \/ NextQuery

Spec == Init /\ [][Next]_vars

\* ------------------------------------------------------------------ claims
Last(seq) == seq[Len(seq)]

MintPath == {"ins_access", "ins_refresh", "save_open", "save_dump"}

\* The worker is minting, or about to return the tokens it minted.
Succeeding(th) == tpc[th] \in MintPath \/ (tpc[th] = "respond" /\ tresp[th].status = 200)

\* This step is worker th taking up a request.
Starts(th) == tpc[th] = "idle" /\ tpc'[th] # "idle"

FailsWith(th, status, error) ==
    /\ tpc'[th] = "respond"
    /\ tresp'[th] = ErrorResp(status, error)
    /\ access_tokens' = access_tokens
    /\ refresh_tokens' = refresh_tokens

\* C1 as stated: in any sequence of /token requests, the first exchange that
\* presents an issued code with its stored client_id, stored redirect_uri and
\* the client's correct secret succeeds, and every later such exchange of the
\* same code fails with invalid_grant (400) and mints no token.  (Stated of
\* the runs in which only the registered client has passed client validation.)
C1_FirstValidExchangeSucceeds ==
    [][\A th \in TokenThreads :
        (Starts(th) /\ ValidExchange(treq'[th]) /\ ~strangerPassed') =>
            IF treq'[th].code \in validTried
            THEN FailsWith(th, 400, "invalid_grant")
            ELSE tpc'[th] = "ins_access"]_vars

\* C1 amended: the first exchange of an issued code that passes client
\* validation succeeds when it presents the stored client_id and redirect_uri
\* with the correct secret; every later exchange of that code that passes client
\* validation fails with invalid_grant (400) and mints no token.
C1_FirstValidatedExchangeSucceeds ==
    [][\A th \in TokenThreads :
        /\ (Starts(th) /\ ValidExchange(treq'[th]) /\ treq'[th].code \notin presented)
              => tpc'[th] = "ins_access"
        /\ (Starts(th) /\ treq'[th].grant_type = "authorization_code"
                /\ treq'[th].code \in presented
                /\ tresp'[th].error # "invalid_client")
              => FailsWith(th, 400, "invalid_grant")]_vars

\* A code was exchanged for tokens, and a second exchange of it with the
\* right client, redirect and secret is being refused.
C1_Witness ==
    \E th \in TokenThreads :
        /\ rng.code = 1 /\ rng.access = 1
        /\ 1 \in DOMAIN refresh_tokens
        /\ tpc[th] = "respond"
        /\ ValidExchange(treq[th])
        /\ tresp[th] = ErrorResp(400, "invalid_grant")

\* C4: a refresh exchange succeeds only if the presented refresh_token is in
\* the refresh-token store, bound there to the presented client_id; any other
\* refresh request fails with invalid_grant or invalid_client.
C4_RefreshNeedsKnownToken ==
    \A th \in TokenThreads :
        treq[th].grant_type = "refresh_token" =>
            /\ Succeeding(th) =>
                  /\ treq[th].refresh_token \in DOMAIN refresh_tokens
                  /\ refresh_tokens[treq[th].refresh_token] = treq[th].client_id
            /\ (tpc[th] = "respond" /\ treq[th].refresh_token \notin DOMAIN refresh_tokens)
                  => tresp[th].status \in {400, 401}

\* C5: a /token request whose client_secret is not the registry's secret for
\* its client_id (an unregistered client_id included, whatever the other
\* fields) never succeeds and mints no token.
C5_UnmatchedSecretNeverSucceeds ==
    \A th \in TokenThreads :
        (/\ treq[th].grant_type \in {"authorization_code", "refresh_token"}
         /\ ~CorrectSecret(treq[th].client_id, treq[th].client_secret))
            => ~Succeeding(th)

\* C6: a refresh exchange presenting a stored refresh token with its owning
\* client_id and correct secret succeeds; it adds a new access token bound to
\* that client, and no step removes or re-binds a refresh token, so the same
\* token succeeds again afterwards.
C6_RefreshReusable ==
    [][/\ \A t \in DOMAIN refresh_tokens :
            t \in DOMAIN refresh_tokens' /\ refresh_tokens'[t] = refresh_tokens[t]
       /\ \A th \in TokenThreads :
            /\ (/\ Starts(th)
                /\ treq'[th].grant_type = "refresh_token"
                /\ treq'[th].refresh_token \in DOMAIN refresh_tokens
                /\ refresh_tokens[treq'[th].refresh_token] = treq'[th].client_id
                /\ CorrectSecret(treq'[th].client_id, treq'[th].client_secret))
                  => tpc'[th] = "ins_access"
            /\ (treq[th].grant_type = "refresh_token" /\ tpc[th] = "ins_access"
                /\ tpc'[th] # "ins_access")
                  => /\ refresh_tokens' = refresh_tokens
                     /\ DOMAIN access_tokens' = DOMAIN access_tokens \cup {tloc[th].access_token}
                     /\ access_tokens'[tloc[th].access_token] = treq[th].client_id
                     /\ tpc'[th] = "save_open"]_vars

\* One refresh token has minted two access tokens in two refresh exchanges and
\* is still in the store.
C6_Witness ==
    \E th \in TokenThreads :
        /\ treq[th].grant_type = "refresh_token"
        /\ tpc[th] = "respond" /\ tresp[th].status = 200
        /\ rng.refresh = 1 /\ rng.access = 3
        /\ treq[th].refresh_token \in DOMAIN refresh_tokens
        /\ Cardinality(DOMAIN access_tokens) = 3

C10_SnapshotHoldsMintedTokens ==
    /\ \A th \in TokenThreads :
        (tpc[th] = "respond" /\ tresp[th].status = 200) =>
            /\ tokens_file.state = "written"
            /\ DictGet(load_tokens_from_file(tokens_file)[1], tresp[th].access_token, "missing")
                  = tloc[th].client_id
            /\ treq[th].grant_type = "authorization_code" =>
                  DictGet(load_tokens_from_file(tokens_file)[2], tresp[th].refresh_token, "missing")
                      = tloc[th].client_id
    /\ (\A th \in TokenThreads : tpc[th] = "idle") =>
            load_tokens_from_file(tokens_file) = <<access_tokens, refresh_tokens>>

\* This step is worker th appending the result of its current command.
Appends(th) == Len(results'[th]) = Len(results[th]) + 1

\* C2: any two calls of trigger_jenkins that pass the cooldown gate and send
\* a request out read clock values at least MIN_INTERVAL apart; of two calls
\* whose readings are closer than that, at most one is forwarded.
C2_ForwardedCallsSpaced ==
    \A i, j \in 1..Len(forwardedAt) :
        i < j => forwardedAt[j] - forwardedAt[i] >= MIN_INTERVAL

\* Two requests went out, the second from worker h2, and a call of worker h1
\* in the same run was dropped.
C2_Witness ==
    /\ Len(forwardedAt) = 2
    /\ hpc["h2"] = "post"
    /\ hpc["h1"] = "loop"
    /\ Len(results["h1"]) = 1
    /\ results["h1"][1].status = "ERROR"
    /\ hout["h1"] = None

\* C3: no thread is inside the outbound POST while it holds execution_lock.
C3_LockFreeDuringPost ==
    \A th \in HomeThreads : hpc[th] = "post" => execution_lock # th

\* C8: a device command with requested value v for device d sets
\* DeviceState[d] = v; its result reports ids = [d] and on = v whatever the
\* trigger did, which leaves the Device State Table alone; and the status is
\* SUCCESS exactly when the call passed the gate, the POST went out and came
\* back with status 200, else ERROR.
C8_ExecuteResult ==
    [][\A th \in HomeThreads :
        /\ \A d \in Devices, on \in OnParams :
              ExecuteCommand(th, d, on) => device_states'[d] = (on = "true")
        /\ Appends(th) =>
              LET r == Last(results'[th]) IN
              /\ r.ids = <<hcur[th].did>>
              /\ r.on = hcur[th].onoff
              /\ device_states' = device_states
              /\ r.status \in {"SUCCESS", "ERROR"}
              /\ r.status = "SUCCESS" <=> (hpc[th] = "post" /\ hout'[th] = "200")]_vars

\* A command that turned the device on was dropped by the cooldown: the
\* result is ERROR with on = true, and the table holds true.
C8_Witness ==
    \E th \in HomeThreads :
        /\ hpc[th] = "loop"
        /\ forwardedAt # <<>>
        /\ results[th] = <<[ids |-> <<"lamp">>, status |-> "ERROR", on |-> TRUE, online |-> TRUE]>>
        /\ hout[th] = None
        /\ device_states["lamp"] = TRUE

QueryPass(d) == d \notin DOMAIN qresp /\ d \in DOMAIN qresp'

\* C11: QUERY is read-only.  For a requested device id it answers online = true
\* and on = the current DeviceState of that id, or on = false for an id the
\* table does not hold; it leaves the Device State Table as it is (no entry
\* is created for an unknown id), and the code ledger, both token stores and
\* last_trigger_time as they are.  Only EXECUTE ever puts an id into the table.
C11_QueryReadOnly ==
    [][/\ \A d \in QueryIds :
            QueryPass(d) =>
                /\ qresp'[d].online = TRUE
                /\ d \in DOMAIN device_states => qresp'[d].on = device_states[d]
                /\ d \notin DOMAIN device_states => qresp'[d].on = FALSE
                /\ device_states' = device_states
                /\ auth_codes' = auth_codes
                /\ access_tokens' = access_tokens
                /\ refresh_tokens' = refresh_tokens
                /\ last_trigger_time' = last_trigger_time
       /\ (qpc = "loop" /\ qpc' = "idle") =>
                /\ device_states' = device_states
                /\ last_trigger_time' = last_trigger_time
       /\ DOMAIN device_states' \subseteq Devices]_vars

\* After an EXECUTE that turned the lamp on and sent a request out, a QUERY
\* for an id nothing ever set answers on = false and the table has no entry
\* for it.
C11_Witness ==
    /\ qpc = "loop"
    /\ qresp = DictSet(EmptyDict, "fan", [online |-> TRUE, on |-> FALSE])
    /\ "fan" \notin DOMAIN device_states
    /\ DictGet(device_states, "lamp", FALSE) = TRUE
    /\ last_trigger_time = StartTime

\* This step is a GET /authorize being answered.
AnswersGet == aresp' # aresp

\* C12: GET /authorize with a client_id that is not in the Credential
\* Registry (a missing client_id included) answers status 400, and a GET
\* /authorize, whatever its client_id, adds no code: the ledger is left as it is
\* and no code is drawn.
C12_GetAuthorizeIssuesNoCode ==
    [][AnswersGet =>
          /\ aresp'.client_id \notin DOMAIN VALID_CLIENTS => aresp'.status = 400
          /\ aresp'.client_id \in DOMAIN VALID_CLIENTS => aresp'.status = 200
          /\ auth_codes' = auth_codes
          /\ issued' = issued
          /\ rng' = rng]_vars

\* An unknown client was answered 400 while the ledger held a code, which is
\* still there.
C12_Witness ==
    /\ aresp = [status |-> 400, client_id |-> "evil"]
    /\ DOMAIN auth_codes = {1}
    /\ rng.code = 1

\* The workers that are serving an authorization_code exchange of code k.
Exchanging(k) ==
    {th \in TokenThreads : treq[th].grant_type = "authorization_code" /\ treq[th].code = k}

\* C13: under any interleaving of authorization_code exchanges of the same
\* code, at most one of them mints tokens.  An exchange reaches the mint only
\* for a code that no exchange has taken out of the ledger before, so no code
\* mints twice, at the same time or one after the other; an exchange that
\* presents the stored client_id and redirect_uri with the correct secret after
\* another has taken the code fails with invalid_grant.
C13_AtMostOneExchangeWins ==
    [][/\ \A k \in DOMAIN issued' :
            Cardinality({th \in Exchanging(k)' : Succeeding(th)'}) <= 1
       /\ \A th \in TokenThreads :
            /\ (Starts(th) /\ treq'[th].grant_type = "authorization_code"
                    /\ tpc'[th] = "ins_access")
                  => /\ treq'[th].code \in DOMAIN auth_codes
                     /\ treq'[th].code \notin presented
                     /\ treq'[th].code \in presented'
                     /\ treq'[th].code \notin DOMAIN auth_codes'
            /\ (Starts(th) /\ ValidExchange(treq'[th]) /\ treq'[th].code \in presented)
                  => FailsWith(th, 400, "invalid_grant")]_vars

\* Two workers are serving exchanges of the same code at the same time, both
\* with the stored client and redirect and the correct secret: one is minting,
\* the other is being refused.
C13_Witness ==
    \E a, b \in TokenThreads :
        /\ a # b
        /\ ValidExchange(treq[a]) /\ ValidExchange(treq[b])
        /\ treq[a].code = treq[b].code
        /\ tpc[a] \in MintPath
        /\ tpc[b] = "respond" /\ tresp[b] = ErrorResp(400, "invalid_grant")

\* The calls of trigger_jenkins that are inside requests.post.
Posting == {th \in HomeThreads : hpc[th] = "post"}

\* C14: a call of trigger_jenkins whose clock reading is less than
\* MIN_INTERVAL after last_trigger_time returns False (its result is ERROR),
\* makes no external call and leaves last_trigger_time as it is; it is never
\* sent out later.  Every external call is made by a call that passed the
\* gate, one for one: the calls made plus the calls inside the POST are the
\* calls that passed the gate.
C14_DroppedCallNeverForwarded ==
    [][/\ \A th \in HomeThreads :
            (hpc[th] = "trigger" /\ hpc'[th] # "trigger"
                /\ now - last_trigger_time < MIN_INTERVAL)
              => /\ hpc'[th] = "loop"
                 /\ Appends(th)
                 /\ Last(results'[th]).status = "ERROR"
                 /\ hout'[th] = None
                 /\ posts' = posts
                 /\ forwardedAt' = forwardedAt
                 /\ last_trigger_time' = last_trigger_time
                 /\ execution_lock' = Free
       /\ posts' # posts =>
              /\ posts' = posts + 1
              /\ \E th \in Posting : hpc'[th] = "loop" /\ Appends(th)
       /\ posts' + Cardinality(Posting') = Len(forwardedAt')]_vars

\* One call went out and came back with 200; a later call of the other
\* worker, inside the cooldown, was dropped: one external call was made for
\* the one call that passed the gate.
C14_Witness ==
    /\ posts = 1
    /\ Len(forwardedAt) = 1
    /\ now > forwardedAt[1]
    /\ hpc["h1"] = "loop" /\ hout["h1"] = None
    /\ Len(results["h1"]) = 1 /\ results["h1"][1].status = "ERROR"
    /\ hpc["h2"] = "loop" /\ hout["h2"] = "200"
    /\ last_trigger_time = forwardedAt[1]

\* C15: under fair scheduling, with an external call that returns or times
\* out, every call of trigger_jenkins returns: a worker that has entered the
\* call gets its boolean and appends its result, a worker inside the POST comes
\* out of it, and a held execution_lock is released.  A RequestException
\* (network failure, timeout) is answered False (result ERROR), with the lock
\* released, and the handler goes on.
C15_TriggerReturns ==
    /\ \A th \in HomeThreads : (hpc[th] = "trigger") ~> (hpc[th] = "loop")
    /\ \A th \in HomeThreads : (hpc[th] = "post") ~> (hpc[th] = "loop")
    /\ (execution_lock # Free) ~> (execution_lock = Free)
    /\ [][\A th \in HomeThreads :
            (hpc[th] = "post" /\ hout'[th] = "RequestException")
              => /\ hpc'[th] = "loop"
                 /\ Appends(th)
                 /\ Last(results'[th]).status = "ERROR"
                 /\ execution_lock' = Free]_vars

\* One worker is inside the POST holding the lock while the other waits for
\* the lock.
C15_Witness ==
    /\ hpc["h1"] = "post"
    /\ execution_lock = "h1"
    /\ hpc["h2"] = "trigger"

\* C16: after a restart of the process the two token stores are what the
\* snapshot file held (empty stores when there is no file); every refresh
\* token returned to a client before the restart is in the refresh-token store
\* after it, bound to the same client, so it is still accepted; the
\* Authorization Code Ledger is empty.  (Stated of the runs in which only the
\* registered client has passed client validation.)
C16_RestartRoundTrip ==
    [][(Restart /\ ~strangerPassed) =>
          /\ \A t \in DOMAIN returned :
                /\ t \in DOMAIN refresh_tokens'
                /\ refresh_tokens'[t] = returned[t]
                /\ ~RefreshRejected(refresh_tokens', t, returned[t])
          /\ auth_codes' = EmptyDict]_vars

\* C17: every entry of the Authorization Code Ledger is bound to a client_id
\* that is a key of the Credential Registry, and so is every code ever issued.
C17_LedgerBoundToRegisteredClient ==
    /\ \A k \in DOMAIN auth_codes : auth_codes[k][1] \in DOMAIN VALID_CLIENTS
    /\ \A k \in DOMAIN issued : issued[k][1] \in DOMAIN VALID_CLIENTS

\* C18: an authorization_code exchange that passes client validation and
\* presents a code of the ledger with a client_id or a redirect_uri other
\* than the ones stored with it fails with invalid_grant (400), mints nothing,
\* and takes the code out of the ledger; no step puts a code back, so a later
\* exchange of that code with the stored client_id and redirect_uri and the
\* correct secret fails with invalid_grant too.
C18_MismatchConsumesCode ==
    [][/\ \A th \in TokenThreads :
            /\ (/\ Starts(th)
                /\ treq'[th].grant_type = "authorization_code"
                /\ tresp'[th].error # "invalid_client"
                /\ treq'[th].code \in DOMAIN auth_codes
                /\ auth_codes[treq'[th].code] # <<treq'[th].client_id, treq'[th].redirect_uri>>)
                  => /\ FailsWith(th, 400, "invalid_grant")
                     /\ treq'[th].code \notin DOMAIN auth_codes'
                     /\ treq'[th].code \in presented'
                     /\ rng' = rng
            /\ (Starts(th) /\ ValidExchange(treq'[th]) /\ treq'[th].code \in presented)
                  => /\ FailsWith(th, 400, "invalid_grant")
                     /\ rng' = rng
       /\ \A k \in presented : k \notin DOMAIN auth_codes /\ k \notin DOMAIN auth_codes']_vars

\* No token was ever minted: the one code was taken by a mismatching exchange,
\* and now an exchange with the stored client and redirect and the correct
\* secret is being refused.
C18_Witness ==
    \E th \in TokenThreads :
        /\ rng.access = 0 /\ rng.refresh = 0
        /\ tpc[th] = "respond"
        /\ ValidExchange(treq[th])
        /\ treq[th].code \in presented
        /\ tresp[th] = ErrorResp(400, "invalid_grant")

\* This step is worker th rejecting the request it takes up with this error.
Rejects(th, error) == Starts(th) /\ tpc'[th] = "respond" /\ tresp'[th].error = error

\* C19: a /token request answered invalid_client (401) or
\* unsupported_grant_type (400) leaves the Authorization Code Ledger, both
\* token stores and the snapshot file as they are and draws no token; a code
\* presented in an exchange answered invalid_client is still in the ledger, and
\* an exchange of a code of the ledger with the stored client_id and
\* redirect_uri and the correct secret succeeds.
C19_RejectedRequestChangesNothing ==
    [][\A th \in TokenThreads :
        /\ (Rejects(th, "invalid_client") \/ Rejects(th, "unsupported_grant_type"))
              => /\ auth_codes' = auth_codes
                 /\ access_tokens' = access_tokens
                 /\ refresh_tokens' = refresh_tokens
                 /\ tokens_file' = tokens_file
                 /\ rng' = rng
                 /\ presented' = presented
        /\ Rejects(th, "invalid_client") => tresp'[th].status = 401
        /\ Rejects(th, "unsupported_grant_type") => tresp'[th].status = 400
        /\ (Starts(th) /\ ValidExchange(treq'[th]) /\ treq'[th].code \in DOMAIN auth_codes)
              => tpc'[th] = "ins_access"]_vars

\* An exchange that presents a code with the client_id and redirect_uri
\* stored with it, and not the client's secret, is being answered
\* invalid_client: the code is in the ledger with its binding.
C19_Witness ==
    \E th \in TokenThreads :
        /\ tpc[th] = "respond" /\ tresp[th] = ErrorResp(401, "invalid_client")
        /\ treq[th].grant_type = "authorization_code"
        /\ treq[th].code \in DOMAIN auth_codes
        /\ auth_codes[treq[th].code] = <<treq[th].client_id, treq[th].redirect_uri>>
        /\ treq[th].client_id \in DOMAIN VALID_CLIENTS

\* C20: a call of trigger_jenkins that passes the gate sets
\* last_trigger_time to the clock value it read, before the external call is
\* made; the return of the external call, whatever it is (200, another status,
\* a RequestException), leaves last_trigger_time as it is, so
\* last_trigger_time is always the reading of the last call that passed; and a
\* call that reads a clock value less than MIN_INTERVAL after it is dropped.
C20_FailedCallKeepsCooldown ==
    [][/\ \A th \in HomeThreads :
            /\ (hpc[th] = "trigger" /\ hpc'[th] = "post")
                  => /\ last_trigger_time' = now
                     /\ posts' = posts
            /\ (hpc[th] = "post" /\ hpc'[th] # "post")
                  => /\ last_trigger_time' = last_trigger_time
                     /\ hout'[th] \in PostOutcomes
            /\ (/\ hpc[th] = "trigger" /\ hpc'[th] # "trigger"
                /\ forwardedAt # <<>>
                /\ now - Last(forwardedAt) < MIN_INTERVAL)
                  => /\ hpc'[th] = "loop"
                     /\ Last(results'[th]).status = "ERROR"
                     /\ forwardedAt' = forwardedAt
       /\ forwardedAt' # <<>> => last_trigger_time' = Last(forwardedAt')]_vars

\* The one call that passed the gate failed (a status other than 200, or a
\* RequestException), and a call of the other worker, made later and inside
\* the cooldown, was dropped.
C20_Witness ==
    /\ Len(forwardedAt) = 1
    /\ hpc["h1"] = "loop" /\ hout["h1"] \in {"500", "RequestException"}
    /\ Len(results["h1"]) = 1 /\ results["h1"][1].status = "ERROR"
    /\ hpc["h2"] = "loop" /\ hout["h2"] = None
    /\ Len(results["h2"]) = 1 /\ results["h2"][1].status = "ERROR"
    /\ now > forwardedAt[1] /\ now - forwardedAt[1] < MIN_INTERVAL
    /\ last_trigger_time = forwardedAt[1]

=============================================================================
